---- MODULE Spec2Model ----
(***************************************************************************)
(* Submission moderation and webhook delivery of the admin server.         *)
(*                                                                         *)
(* The durable store (submissions, moderation actions, platform users,     *)
(* webhook events) is modelled row by row.  Every handler is cut at its    *)
(* awaits on the store and on the outbound HTTP call: what runs between    *)
(* two awaits is one action, and other requests may run in between.        *)
(***************************************************************************)
EXTENDS Integers, Sequences, FiniteSets, Bags, TLC

\* ------------------------------------------------------------------------
\* Bounds of the model
\* ------------------------------------------------------------------------
MaxSubs == 2        \* submissions ever created
MaxCalls == 2       \* moderation calls that get past their validation
MaxEvents == 1      \* direct calls of emitWebhook
MaxRestarts == 1    \* process restarts
DigestLen == 2      \* characters of a hex digest (64 for SHA-256)
MaxHits == 6        \* requests one key sends within one rate-limit window

\* ------------------------------------------------------------------------
\* Program constants and input domains
\* ------------------------------------------------------------------------
MAX_RETRIES == 3
SWEEP_TAKE == 100
RATE_MAX == 5

Wallets == {"w1"}
Tasks == {"t1"}
AdminId == "a1"
TxLinks == {"link"}
TxHashes == {"hash"}
Claimers == {"w1", "w2"}
NoWallet == "none"
ClientIp == "ip"
WalletInputs == Wallets \cup {NoWallet}
RateKeys == Wallets \cup {ClientIp}
ReasonInputs == {<<>>, <<" ", " ">>, <<"n", "o">>}

SubmissionStatus ==
  {"PENDING", "UNDER_REVIEW", "APPROVED", "REJECTED", "REWARD_PENDING",
   "REWARD_PAID", "EXPIRED", "FLAGGED"}

\* Faulty variant: the approve validation also lets APPROVED through.
ApprovableStatusesLax == {"PENDING", "UNDER_REVIEW", "FLAGGED", "APPROVED"}

ApprovableStatuses == {"PENDING", "UNDER_REVIEW", "FLAGGED"}
RejectableStatuses == {"PENDING", "UNDER_REVIEW", "FLAGGED"}
FlaggableStatuses == {"PENDING", "UNDER_REVIEW"}
ClaimableStatuses == {"APPROVED"}
ConfirmableStatuses == {"REWARD_PENDING"}
DuplicateStatuses == {"PENDING", "UNDER_REVIEW"}

VARIABLES
  subs,       \* TaskSubmission rows, indexed by id
  actions,    \* ModerationAction rows, in insertion order
  users,      \* PlatformUser row of each wallet
  events,     \* WebhookEvent rows, indexed by id
  http,       \* per event: POSTs issued, 2xx responses received, and
              \* deliverWebhook calls that returned at the DELIVERED check
  reqs,       \* bag of moderation requests past their read, not yet returned
  scheduled,  \* bag of event ids with a deliverWebhook call scheduled
  dels,       \* bag of deliverWebhook calls awaiting the HTTP response
  sweep,      \* the running retryFailedWebhooks call, if any
  urlSet,     \* config.userAppWebhookUrl is configured
  restarts,   \* process restarts so far
  resp,       \* the response the step just taken returned to its caller
  hits,       \* rate limiter: requests counted per key in the current window
  hmac        \* a call of verifyHmacSignature: its arguments and its outcome

vars == <<subs, actions, users, events, http, reqs, scheduled, dels, sweep,
          urlSet, restarts, resp, hits, hmac>>

store == <<subs, actions, users, events>>

\* ------------------------------------------------------------------------
\* Helpers
\* ------------------------------------------------------------------------
SubIds == 1..MaxSubs

Exists(s) == s \in 1..Len(subs)

One(x) == SetToBag({x})

NoUser == [exists |-> FALSE, totalApproved |-> 0, totalRejected |-> 0,
           totalPending |-> 0, isSuspended |-> FALSE]

NewUser == [NoUser EXCEPT !.exists = TRUE]

\* A response; refused holds the signature of a request that was turned
\* away at the signature check.
Response(op, id, code) ==
  [op |-> op, id |-> id, code |-> code, refused |-> {}]

NoResponse == Response("none", 0, "none")

RECURSIVE TrimStart(_)
TrimStart(str) ==
  IF str # <<>> /\ Head(str) = " " THEN TrimStart(Tail(str)) ELSE str

RECURSIVE TrimEnd(_)
TrimEnd(str) ==
  IF str # <<>> /\ str[Len(str)] = " "
    THEN TrimEnd(SubSeq(str, 1, Len(str) - 1))
    ELSE str

Trim(str) == TrimEnd(TrimStart(str))

ReasonMissing(reason) == reason = <<>> \/ Len(Trim(reason)) = 0

SweepIdle == [active |-> FALSE, todo |-> <<>>, count |-> 0]

NoHits == [k \in RateKeys |-> [total |-> 0, passed |-> 0]]

\* ------------------------------------------------------------------------
\* HMAC signatures
\* ------------------------------------------------------------------------
\* Strings are sequences of characters.  "eacute" stands for a character
\* outside ASCII, which UTF-8 encodes in two bytes.
Payloads == {"p1", "p2"}
Secrets == {"k1", "k2"}
WebhookSecret == "k1"
SigChars == {"0", "1", "eacute"}

RECURSIVE StringsUpTo(_)
StringsUpTo(n) ==
  IF n = 0 THEN {<<>>}
  ELSE StringsUpTo(n - 1) \cup
       {Append(str, c) : str \in {x \in StringsUpTo(n - 1) : Len(x) = n - 1},
                         c \in SigChars}

Signatures == StringsUpTo(DigestLen + 1)

\* The signatures the requests of the gateway are tried with: the missing
\* one, the right one of each body, wrong ones of the right length, and
\* shorter and longer ones.
SignatureInputs ==
  {sig \in Signatures : \A i \in 2..Len(sig) : sig[i] = "0"}

PayloadDigit(p) == IF p = "p1" THEN "0" ELSE "1"

SecretDigit(k) == IF k = "k1" THEN "0" ELSE "1"

\* createHmacSignature: the hex digest of a keyed hash.  The hash itself is
\* abstracted to what the callers rely on: it is a function of payload and
\* secret, its digest has a fixed length, and two different inputs of the
\* domain have different digests.
CreateHmacSignature(payload, secret) ==
  [i \in 1..DigestLen |->
     IF i = 1 THEN PayloadDigit(payload)
     ELSE IF i = 2 THEN SecretDigit(secret)
     ELSE "0"]

Utf8(c) == IF c = "eacute" THEN <<"c3", "a9">> ELSE <<c>>

\* Buffer.from(string): the UTF-8 bytes of the string.
RECURSIVE BufferFrom(_)
BufferFrom(str) ==
  IF str = <<>> THEN <<>> ELSE Utf8(Head(str)) \o BufferFrom(Tail(str))

\* crypto.timingSafeEqual: throws a RangeError when the two buffers differ
\* in byte length, otherwise compares them.
TimingSafeEqual(a, b) ==
  IF Len(a) # Len(b) THEN "throws"
  ELSE IF a = b THEN "true" ELSE "false"

VerifyHmacSignature(payload, signature, secret) ==
  TimingSafeEqual(BufferFrom(signature),
                  BufferFrom(CreateHmacSignature(payload, secret)))

NoVerify ==
  [stage |-> "idle", payload |-> "none", secret |-> "none",
   signature |-> <<>>, gotPayload |-> "none", gotSignature |-> <<>>,
   result |-> "none"]

gateway == <<subs, actions, users, events, http, reqs, scheduled, dels,
             sweep, urlSet, restarts, resp, hits>>

\* A sender signs a payload with a secret.
HmacSign(payload, secret) ==
  /\ hmac.stage = "idle"
  /\ hmac' = [hmac EXCEPT !.stage = "signed", !.payload = payload,
                          !.secret = secret,
                          !.signature = CreateHmacSignature(payload, secret)]
  /\ UNCHANGED gateway

\* A payload and a signature arrive at the receiver: the signed ones or any
\* others.
HmacReceive(payload, signature) ==
  /\ hmac.stage = "signed"
  /\ hmac' = [hmac EXCEPT !.stage = "received", !.gotPayload = payload,
                          !.gotSignature = signature]
  /\ UNCHANGED gateway

\* The receiver calls verifyHmacSignature with the secret of the sender.
HmacVerify ==
  /\ hmac.stage = "received"
  /\ hmac' = [hmac EXCEPT
                !.stage = "verified",
                !.result = VerifyHmacSignature(hmac.gotPayload,
                                               hmac.gotSignature,
                                               hmac.secret)]
  /\ UNCHANGED gateway

Init ==
  /\ subs = <<>>
  /\ actions = <<>>
  /\ users = [w \in Wallets |-> NoUser]
  /\ events = <<>>
  /\ http = <<>>
  /\ reqs = EmptyBag
  /\ scheduled = EmptyBag
  /\ dels = EmptyBag
  /\ sweep = SweepIdle
  /\ urlSet \in BOOLEAN
  /\ restarts = 0
  /\ resp = NoResponse
  /\ hits = NoHits
  /\ hmac = NoVerify

\* ------------------------------------------------------------------------
\* Upload routes
\* ------------------------------------------------------------------------
HasPendingDuplicate(w, t) ==
  \E s \in 1..Len(subs) :
    /\ subs[s].user = w
    /\ subs[s].task = t
    /\ subs[s].status \in DuplicateStatuses

\* POST /upload/request: find or create the platform user, then the
\* suspension and duplicate checks; no submission is created here.
UploadRequest(w, t) ==
  /\ users' = IF users[w].exists THEN users ELSE [users EXCEPT ![w] = NewUser]
  /\ resp' = Response("uploadRequest", 0,
               IF users[w].isSuspended THEN "FORBIDDEN"
               ELSE IF HasPendingDuplicate(w, t) THEN "CONFLICT"
               ELSE "OK")
  /\ UNCHANGED <<subs, actions, events, http, reqs, scheduled, dels, sweep,
                 urlSet, restarts, hmac>>

NewSubmission(w, t) ==
  [user |-> w, task |-> t, status |-> "PENDING", reviewedBy |-> "none",
   rejectionReason |-> <<>>, rewardTxHash |-> "none", rewardPaidAt |-> FALSE]

\* Faulty variant: the suspension flag is not looked at.
ConfirmCodeUnsuspended(w, t) ==
  IF ~users[w].exists THEN "NOT_FOUND" ELSE "CREATED"

ConfirmCode(w, t) ==
  IF ~users[w].exists THEN "NOT_FOUND"
  ELSE IF users[w].isSuspended THEN "FORBIDDEN"
  ELSE "CREATED"

\* POST /upload/confirm: create the submission and count it as pending.
UploadConfirm(w, t) ==
  /\ Len(subs) < MaxSubs
  /\ resp' = Response("uploadConfirm", 0, ConfirmCode(w, t))
  /\ IF ConfirmCode(w, t) = "CREATED"
       THEN /\ subs' = Append(subs, NewSubmission(w, t))
            /\ users' = [users EXCEPT ![w].totalPending = @ + 1]
       ELSE UNCHANGED <<subs, users>>
  /\ UNCHANGED <<actions, events, http, reqs, scheduled, dels, sweep, urlSet,
                 restarts, hmac>>

\* ------------------------------------------------------------------------
\* Moderation service: approve, reject, flag
\* ------------------------------------------------------------------------
Request(op, s, prev, tx, reason) ==
  [op |-> op, sub |-> s, prev |-> prev, tx |-> tx, reason |-> reason,
   pc |-> "tx"]

Awaiting(pc) == {r \in BagToSet(reqs) : r.pc = pc}

AwaitingTx ==
  LET Sum[S \in SUBSET Awaiting("tx")] ==
        IF S = {} THEN 0
        ELSE LET r == CHOOSE x \in S : TRUE
             IN CopiesIn(r, reqs) + Sum[S \ {r}]
  IN Sum[Awaiting("tx")]

CanStart == Len(actions) + AwaitingTx < MaxCalls

\* The read and the status validation a moderation call makes before its
\* transaction: NOT_FOUND, BAD_REQUEST, or the request goes on with the
\* status it has read.
ReadAndValidate(op, s, allowed, tx, reason) ==
  /\ IF ~Exists(s)
       THEN /\ resp' = Response(op, s, "NOT_FOUND")
            /\ reqs' = reqs
       ELSE IF subs[s].status \notin allowed
       THEN /\ resp' = Response(op, s, "BAD_REQUEST")
            /\ reqs' = reqs
       ELSE /\ CanStart
            /\ resp' = NoResponse
            /\ reqs' = reqs (+) One(Request(op, s, subs[s].status, tx, reason))
  /\ UNCHANGED <<subs, actions, users, events, http, scheduled, dels, sweep,
                 urlSet, restarts, hits, hmac>>

ApproveRead(s, tx) ==
  ReadAndValidate("approve", s, ApprovableStatuses, tx, <<>>)

RejectRead(s, reason) ==
  IF ReasonMissing(reason)
    THEN /\ resp' = Response("reject", s, "BAD_REQUEST")
         /\ UNCHANGED <<subs, actions, users, events, http, reqs, scheduled,
                        dels, sweep, urlSet, restarts, hits, hmac>>
    ELSE ReadAndValidate("reject", s, RejectableStatuses, "none", reason)

FlagRead(s) ==
  ReadAndValidate("flag", s, FlaggableStatuses, "none", <<>>)

ActionRow(r, action, new) ==
  [sub |-> r.sub, admin |-> AdminId, action |-> action, prev |-> r.prev,
   new |-> new]

ApprovedRow(row, r) ==
  [row EXCEPT !.status = "APPROVED", !.reviewedBy = AdminId,
              !.rewardTxHash = r.tx]

ApprovedUser(u) ==
  [u EXCEPT !.totalApproved = @ + 1, !.totalPending = @ - 1]

RejectedRow(row, r) ==
  [row EXCEPT !.status = "REJECTED", !.reviewedBy = AdminId,
              !.rejectionReason = r.reason]

RejectedUser(u) ==
  [u EXCEPT !.totalRejected = @ + 1, !.totalPending = @ - 1]

\* Faulty variant: a flag puts the submission under review.
FlaggedRowUnderReview(row) == [row EXCEPT !.status = "UNDER_REVIEW"]

FlaggedRow(row) == [row EXCEPT !.status = "FLAGGED"]

\* The transaction of approveSubmission commits.
ApproveTx(r) ==
  /\ r.op = "approve" /\ r.pc = "tx"
  /\ subs' = [subs EXCEPT ![r.sub] = ApprovedRow(@, r)]
  /\ actions' = Append(actions, ActionRow(r, "APPROVE", "APPROVED"))
  /\ users' = [users EXCEPT ![subs[r.sub].user] = ApprovedUser(@)]
  /\ reqs' = (reqs (-) One(r)) (+) One([r EXCEPT !.pc = "emit"])
  /\ resp' = NoResponse
  /\ UNCHANGED <<events, http, scheduled, dels, sweep, urlSet, restarts, hits, hmac>>

\* The transaction of rejectSubmission commits.
RejectTx(r) ==
  /\ r.op = "reject" /\ r.pc = "tx"
  /\ subs' = [subs EXCEPT ![r.sub] = RejectedRow(@, r)]
  /\ actions' = Append(actions, ActionRow(r, "REJECT", "REJECTED"))
  /\ users' = [users EXCEPT ![subs[r.sub].user] = RejectedUser(@)]
  /\ reqs' = (reqs (-) One(r)) (+) One([r EXCEPT !.pc = "emit"])
  /\ resp' = NoResponse
  /\ UNCHANGED <<events, http, scheduled, dels, sweep, urlSet, restarts, hits, hmac>>

\* The transaction of flagSubmission commits and the call returns.
FlagTx(r) ==
  /\ r.op = "flag" /\ r.pc = "tx"
  /\ subs' = [subs EXCEPT ![r.sub] = FlaggedRow(@)]
  /\ actions' = Append(actions, ActionRow(r, "FLAG", "FLAGGED"))
  /\ reqs' = reqs (-) One(r)
  /\ resp' = Response("flag", r.sub, "OK")
  /\ UNCHANGED <<users, events, http, scheduled, dels, sweep, urlSet,
                 restarts, hits, hmac>>

\* Faulty variant: the writes are not in one transaction, and a failure
\* after the first of them leaves the submission row updated.
TxFailPartial(r) ==
  /\ r.pc = "tx"
  /\ subs' = IF r.op = "approve"
               THEN [subs EXCEPT ![r.sub] = ApprovedRow(@, r)]
               ELSE IF r.op = "reject"
               THEN [subs EXCEPT ![r.sub] = RejectedRow(@, r)]
               ELSE IF r.op = "flag"
               THEN [subs EXCEPT ![r.sub] = FlaggedRow(@)]
               ELSE subs
  /\ reqs' = reqs (-) One(r)
  /\ resp' = Response(r.op, r.sub, "INTERNAL_ERROR")
  /\ UNCHANGED <<actions, users, events, http, scheduled, dels, sweep,
                 urlSet, restarts, hits, hmac>>

\* A transaction (or the single write of a view, claim or confirmation) that
\* fails is rolled back as a whole and the call throws.
TxFail(r) ==
  /\ r.pc = "tx"
  /\ reqs' = reqs (-) One(r)
  /\ resp' = Response(r.op, r.sub, "INTERNAL_ERROR")
  /\ UNCHANGED <<subs, actions, users, events, http, scheduled, dels, sweep,
                 urlSet, restarts, hits, hmac>>

\* getSubmissionDetail: the read; the call goes on to log the view.
ViewRead(s) ==
  ReadAndValidate("view", s, SubmissionStatus, "none", <<>>)

\* Faulty variant: viewing moves the submission to UNDER_REVIEW.
ViewLogMarking(r) ==
  /\ r.op = "view" /\ r.pc = "tx"
  /\ actions' = Append(actions, ActionRow(r, "VIEW", "UNDER_REVIEW"))
  /\ subs' = [subs EXCEPT ![r.sub].status = "UNDER_REVIEW"]
  /\ reqs' = reqs (-) One(r)
  /\ resp' = Response("view", r.sub, "OK")
  /\ UNCHANGED <<users, events, http, scheduled, dels, sweep, urlSet,
                 restarts, hits, hmac>>

\* getSubmissionDetail: the VIEW row is inserted and the detail returned.
ViewLog(r) ==
  /\ r.op = "view" /\ r.pc = "tx"
  /\ actions' = Append(actions, ActionRow(r, "VIEW", r.prev))
  /\ reqs' = reqs (-) One(r)
  /\ resp' = Response("view", r.sub, "OK")
  /\ UNCHANGED <<subs, users, events, http, scheduled, dels, sweep, urlSet,
                 restarts, hits, hmac>>

\* ------------------------------------------------------------------------
\* Admin route: POST /submissions/:id/reject
\* ------------------------------------------------------------------------
\* rejectSchema: the least length of a rejection reason.
REASON_MIN == 10

Repeated(c, n) == [i \in 1..n |-> c]

\* The reasons an admin sends: none, blanks, text below the least length,
\* and blanks and text of the least length.
RouteReasons ==
  {<<>>, <<" ", " ">>, <<"n", "o">>, Repeated("n", REASON_MIN - 1),
   Repeated(" ", REASON_MIN), Repeated("n", REASON_MIN)}

\* rejectSchema.parse: a string of at least REASON_MIN characters.
RejectSchemaOk(reason) == Len(reason) >= REASON_MIN

\* The HTTP status the error handler sends for a response code.
StatusCode(code) ==
  CASE code = "OK" -> 200
    [] code \in {"BAD_REQUEST", "VALIDATION_ERROR"} -> 400
    [] code = "UNAUTHORIZED" -> 401
    [] code = "FORBIDDEN" -> 403
    [] code = "NOT_FOUND" -> 404
    [] code = "CONFLICT" -> 409
    [] code = "TOO_MANY_REQUESTS" -> 429
    [] OTHER -> 500

\* Faulty variant: the body is handed to the service unparsed.
PostRejectUnparsed(s, reason) == RejectRead(s, reason)

\* The route up to the service's transaction: the body is parsed, and a
\* ZodError is answered by the error handler; then rejectSubmission runs.
PostReject(s, reason) ==
  IF ~RejectSchemaOk(reason)
    THEN /\ resp' = Response("reject", s, "VALIDATION_ERROR")
         /\ UNCHANGED <<subs, actions, users, events, http, reqs, scheduled,
                        dels, sweep, urlSet, restarts, hits, hmac>>
    ELSE RejectRead(s, reason)

\* ------------------------------------------------------------------------
\* Integration routes: reward claim and reward confirmation
\* ------------------------------------------------------------------------
\* Faulty variant: the submission is looked up by id alone.
ClaimReadAnyWallet(w, s) ==
  ReadAndValidate("claim", s, ClaimableStatuses, "none", <<>>)

\* POST /integration/reward/claim up to its update: the submission is looked
\* up by id and owning wallet.
ClaimRead(w, s) ==
  IF Exists(s) /\ subs[s].user # w
    THEN /\ resp' = Response("claim", s, "NOT_FOUND")
         /\ UNCHANGED <<subs, actions, users, events, http, reqs, scheduled,
                        dels, sweep, urlSet, restarts, hits, hmac>>
    ELSE ReadAndValidate("claim", s, ClaimableStatuses, "none", <<>>)

ClaimedRow(row) == [row EXCEPT !.status = "REWARD_PENDING"]

\* The update of the claim; the route answers with the payment data.
ClaimWrite(r) ==
  /\ r.op = "claim" /\ r.pc = "tx"
  /\ subs' = [subs EXCEPT ![r.sub] = ClaimedRow(@)]
  /\ reqs' = reqs (-) One(r)
  /\ resp' = Response("claim", r.sub, "OK")
  /\ UNCHANGED <<actions, users, events, http, scheduled, dels, sweep, urlSet,
                 restarts, hits, hmac>>

\* POST /integration/reward/confirm up to its update.
ConfirmRead(s, hash) ==
  ReadAndValidate("confirm", s, ConfirmableStatuses, hash, <<>>)

PaidRow(row, r) ==
  [row EXCEPT !.status = "REWARD_PAID", !.rewardTxHash = r.tx,
              !.rewardPaidAt = TRUE]

\* The update of the confirmation.
ConfirmWrite(r) ==
  /\ r.op = "confirm" /\ r.pc = "tx"
  /\ subs' = [subs EXCEPT ![r.sub] = PaidRow(@, r)]
  /\ reqs' = reqs (-) One(r)
  /\ resp' = Response("confirm", r.sub, "OK")
  /\ UNCHANGED <<actions, users, events, http, scheduled, dels, sweep, urlSet,
                 restarts, hits, hmac>>

\* ------------------------------------------------------------------------
\* Requests of the user app: rate limiter and signature check
\* ------------------------------------------------------------------------
\* The raw body of a request, which the signature is computed over.
RawBody(w) == IF w = "w1" THEN "p1" ELSE "p2"

\* keyGenerator of submissionRateLimiter.
RateKey(w) == IF w = NoWallet THEN ClientIp ELSE w

\* The limiter counts the request; it lets it through while the count of
\* the window, this request included, does not exceed the quota.
Counted(h) ==
  [total |-> h.total + 1,
   passed |-> IF h.total + 1 > RATE_MAX THEN h.passed ELSE h.passed + 1]

\* Faulty variant: the limiter lets one request more through.
LimitedOffByOne(key) == hits[key].total + 1 > RATE_MAX + 1

Limited(key) == hits[key].total + 1 > RATE_MAX

\* verifyUserAppSignature / verifyAppSignature: a missing signature is
\* refused without calling verifyHmacSignature.
SignatureCheck(payload, sig) ==
  IF sig = <<>> THEN "false"
  ELSE VerifyHmacSignature(payload, sig, WebhookSecret)

\* The answer to a request whose signature check did not return true: 401
\* when it returned false, and the error handler's 500 when it threw.
Refused(op, id, sig, outcome) ==
  [Response(op, id, IF outcome = "false" THEN "UNAUTHORIZED"
                    ELSE "INTERNAL_ERROR")
     EXCEPT !.refused = {sig}]

uploadFrame == <<actions, events, http, reqs, scheduled, dels, sweep, urlSet,
                 restarts, hmac>>

\* What the upload routes do before their handler body: the limiter, the
\* signature check and the parse of the body.
UploadGate(op, w, sig) ==
  IF Limited(RateKey(w)) THEN Response(op, 0, "TOO_MANY_REQUESTS")
  ELSE IF SignatureCheck(RawBody(w), sig) # "true"
    THEN Refused(op, 0, sig, SignatureCheck(RawBody(w), sig))
  ELSE IF w = NoWallet THEN Response(op, 0, "VALIDATION_ERROR")
  ELSE Response(op, 0, "PASS")

\* POST /upload/request, from the limiter on.
PostUploadRequest(w, t, sig) ==
  /\ hits[RateKey(w)].total < MaxHits
  /\ hits' = [hits EXCEPT ![RateKey(w)] = Counted(@)]
  /\ IF UploadGate("uploadRequest", w, sig).code = "PASS"
       THEN UploadRequest(w, t)
       ELSE /\ resp' = UploadGate("uploadRequest", w, sig)
            /\ UNCHANGED <<subs, users>>
            /\ UNCHANGED uploadFrame

\* POST /upload/confirm, from the limiter on.
PostUploadConfirm(w, t, sig) ==
  /\ hits[RateKey(w)].total < MaxHits
  /\ hits' = [hits EXCEPT ![RateKey(w)] = Counted(@)]
  /\ IF UploadGate("uploadConfirm", w, sig).code = "PASS"
       THEN UploadConfirm(w, t)
       ELSE /\ resp' = UploadGate("uploadConfirm", w, sig)
            /\ UNCHANGED <<subs, users>>
            /\ UNCHANGED uploadFrame

\* The window of a key ends: its count starts again.
WindowReset(key) ==
  /\ hits[key].total > 0
  /\ hits' = [hits EXCEPT ![key] = [total |-> 0, passed |-> 0]]
  /\ UNCHANGED <<subs, actions, users, events, http, reqs, scheduled, dels,
                 sweep, urlSet, restarts, resp, hmac>>

\* requireAppSignature in front of an integration route.
RefusedByApp(op, s, w, sig) ==
  /\ resp' = Refused(op, s, sig, SignatureCheck(RawBody(w), sig))
  /\ UNCHANGED <<subs, actions, users, events, http, reqs, scheduled, dels,
                 sweep, urlSet, restarts, hits, hmac>>

\* POST /integration/reward/claim, from requireAppSignature on.
PostClaim(w, s, sig) ==
  IF SignatureCheck(RawBody(w), sig) = "true"
    THEN ClaimRead(w, s)
    ELSE RefusedByApp("claim", s, w, sig)

\* POST /integration/reward/confirm, from requireAppSignature on.
PostConfirm(w, s, hash, sig) ==
  IF SignatureCheck(RawBody(w), sig) = "true"
    THEN ConfirmRead(s, hash)
    ELSE RefusedByApp("confirm", s, w, sig)

SuspendedUser == [NewUser EXCEPT !.isSuspended = TRUE]

\* The store is empty but for the platform users, which may be there
\* already and may have been suspended.
GatewayInit ==
  /\ subs = <<>>
  /\ actions = <<>>
  /\ users \in [Wallets -> {NoUser, NewUser, SuspendedUser}]
  /\ events = <<>>
  /\ http = <<>>
  /\ reqs = EmptyBag
  /\ scheduled = EmptyBag
  /\ dels = EmptyBag
  /\ sweep = SweepIdle
  /\ urlSet \in BOOLEAN
  /\ restarts = 0
  /\ resp = NoResponse
  /\ hits = NoHits
  /\ hmac = NoVerify

\* ------------------------------------------------------------------------
\* Webhook service
\* ------------------------------------------------------------------------
\* Faulty variant: every moderation event is emitted as an approval.
EventTypeAlwaysApproved(op) == "submission.approved"

EventType(op) ==
  IF op = "approve" THEN "submission.approved" ELSE "submission.rejected"

WebhookEventTypes == {"submission.approved", "submission.rejected"}

\* JSON.stringify(payload): the stored string holds the event type, the
\* time of the emit (the position of the event in the outbox stands for it)
\* and the data.
PayloadString(type, s) ==
  [eventType |-> type, timestamp |-> Len(events) + 1, data |-> s]

NewEvent(type, s) ==
  [eventType |-> type, sub |-> s, status |-> "PENDING", attempts |-> 0,
   lastAttempt |-> FALSE, lastError |-> FALSE, delivered |-> FALSE,
   payload |-> PayloadString(type, s)]

\* Faulty variant: deliverWebhook is started whether or not a target URL is
\* configured.
EmitStoreAlways(type, s) ==
  /\ events' = Append(events, NewEvent(type, s))
  /\ http' = Append(http, [posts |-> 0, oks |-> 0, skips |-> 0])
  /\ scheduled' = scheduled (+) One(Len(events) + 1)

\* emitWebhook: store the event as PENDING and, when a target URL is
\* configured, start deliverWebhook without awaiting it.  The started call
\* is a scheduled delivery with no delay.
EmitStore(type, s) ==
  /\ events' = Append(events, NewEvent(type, s))
  /\ http' = Append(http, [posts |-> 0, oks |-> 0, skips |-> 0])
  /\ scheduled' = IF urlSet THEN scheduled (+) One(Len(events) + 1)
                  ELSE scheduled

\* emitWebhook as approveSubmission and rejectSubmission call it after their
\* transaction; when it returns, the moderation call returns.
EmitWebhook(r) ==
  /\ r.pc = "emit"
  /\ EmitStore(EventType(r.op), r.sub)
  /\ reqs' = reqs (-) One(r)
  /\ resp' = Response(r.op, r.sub, "OK")
  /\ UNCHANGED <<subs, actions, users, dels, sweep, urlSet, restarts, hits, hmac>>

\* The insert of the event fails: the moderation call throws after its
\* transaction has committed.
EmitFail(r) ==
  /\ r.pc = "emit"
  /\ reqs' = reqs (-) One(r)
  /\ resp' = Response(r.op, r.sub, "INTERNAL_ERROR")
  /\ UNCHANGED <<subs, actions, users, events, http, scheduled, dels, sweep,
                 urlSet, restarts, hits, hmac>>

\* emitWebhook called on its own (it is exported by the service).
\* It returns the id of the stored event.
Emit(type, s) ==
  /\ Len(events) < MaxEvents
  /\ EmitStore(type, s)
  /\ resp' = Response("emit", Len(events) + 1, "OK")
  /\ UNCHANGED <<subs, actions, users, reqs, dels, sweep, urlSet, restarts,
                 hits, hmac>>

\* Faulty variant: the payload is serialized again for every attempt, with
\* the time of the attempt.
AttemptRestamped(e, att, bySweep) ==
  [ev |-> e, att |-> att, sw |-> bySweep,
   body |-> [events[e].payload EXCEPT !.timestamp = @ + att + 1],
   signed |-> [events[e].payload EXCEPT !.timestamp = @ + att + 1]]

\* A POST in flight: the event row as deliverWebhook read it (its attempts),
\* the body sent, and the string the X-Webhook-Signature header signs.
Attempt(e, att, bySweep) ==
  [ev |-> e, att |-> att, sw |-> bySweep,
   body |-> events[e].payload, signed |-> events[e].payload]

\* Faulty variant: no check of the event's status before the POST.
DeliverBeginUnguarded(e, bySweep) ==
  /\ dels' = dels (+) One(Attempt(e, events[e].attempts, bySweep))
  /\ http' = [http EXCEPT ![e].posts = @ + 1]

\* deliverWebhook up to its fetch: read the event, return if it is
\* DELIVERED, otherwise sign the stored payload and issue the POST.
DeliverBegin(e, bySweep) ==
  IF events[e].status = "DELIVERED"
    THEN /\ dels' = dels
         /\ http' = [http EXCEPT ![e].skips = @ + 1]
    ELSE /\ dels' = dels (+) One(Attempt(e, events[e].attempts, bySweep))
         /\ http' = [http EXCEPT ![e].posts = @ + 1]

\* A scheduled deliverWebhook call runs (the one emitWebhook started, or a
\* setTimeout callback).
DeliverScheduled(e) ==
  /\ BagIn(e, scheduled)
  /\ scheduled' = scheduled (-) One(e)
  /\ DeliverBegin(e, FALSE)
  /\ UNCHANGED <<subs, actions, users, events, reqs, sweep, urlSet, restarts, hits, hmac,
                 resp>>

StatusAfterFailure(att) ==
  IF att >= MAX_RETRIES - 1 THEN "FAILED" ELSE "RETRYING"

RetryScheduled(att) == att < MAX_RETRIES - 1

DeliveredEvent(ev) ==
  [ev EXCEPT !.status = "DELIVERED", !.delivered = TRUE,
             !.attempts = @ + 1, !.lastAttempt = TRUE]

FailedEvent(ev, att) ==
  [ev EXCEPT !.status = StatusAfterFailure(att), !.attempts = @ + 1,
             !.lastAttempt = TRUE, !.lastError = TRUE]

\* Faulty variant: the failure of a delivery is handed to the moderation
\* call that emitted the event.
DeliverEndSurfacing(d, ok) ==
  /\ BagIn(d, dels)
  /\ dels' = dels (-) One(d)
  /\ IF ok
       THEN /\ events' = [events EXCEPT ![d.ev] = DeliveredEvent(@)]
            /\ http' = [http EXCEPT ![d.ev].oks = @ + 1]
            /\ scheduled' = scheduled
            /\ resp' = resp
       ELSE /\ events' = [events EXCEPT ![d.ev] = FailedEvent(@, d.att)]
            /\ http' = http
            /\ scheduled' = scheduled
            /\ resp' = Response("approve", events[d.ev].sub, "INTERNAL_ERROR")
  /\ UNCHANGED <<subs, actions, users, reqs, sweep, urlSet, restarts, hits,
                 hmac>>

\* The response of the POST arrives and deliverWebhook updates the event;
\* ok is response.ok, FALSE also stands for a transport error.
DeliverEnd(d, ok) ==
  /\ BagIn(d, dels)
  /\ dels' = dels (-) One(d)
  /\ IF ok
       THEN /\ events' = [events EXCEPT ![d.ev] = DeliveredEvent(@)]
            /\ http' = [http EXCEPT ![d.ev].oks = @ + 1]
            /\ scheduled' = scheduled
       ELSE /\ events' = [events EXCEPT ![d.ev] = FailedEvent(@, d.att)]
            /\ http' = http
            /\ scheduled' = IF RetryScheduled(d.att)
                              THEN scheduled (+) One(d.ev)
                              ELSE scheduled
  /\ UNCHANGED <<subs, actions, users, reqs, sweep, urlSet, restarts, hits,
                 hmac, resp>>

Take(seq, n) == SubSeq(seq, 1, IF Len(seq) < n THEN Len(seq) ELSE n)

\* Faulty variant: the sweep also picks up events that were never tried.
SweepSelectedOrPending(e) ==
  events[e].status \in {"RETRYING", "PENDING"}
    /\ events[e].attempts < MAX_RETRIES

SweepSelected(e) ==
  events[e].status = "RETRYING" /\ events[e].attempts < MAX_RETRIES

RECURSIVE SelectIds(_)
SelectIds(n) ==
  IF n = 0 THEN <<>>
  ELSE IF SweepSelected(n) THEN Append(SelectIds(n - 1), n)
  ELSE SelectIds(n - 1)

\* retryFailedWebhooks: the findMany.
SweepStart ==
  /\ ~sweep.active
  /\ sweep' = [active |-> TRUE,
               todo |-> Take(SelectIds(Len(events)), SWEEP_TAKE),
               count |-> Len(Take(SelectIds(Len(events)), SWEEP_TAKE))]
  /\ UNCHANGED <<subs, actions, users, events, http, reqs, scheduled, dels,
                 urlSet, restarts, hits, hmac, resp>>

SweepWaiting == \E d \in BagToSet(dels) : d.sw

\* retryFailedWebhooks: one turn of the loop once the awaited deliverWebhook
\* has returned, or the return of the count.
SweepStep ==
  /\ sweep.active
  /\ ~SweepWaiting
  /\ IF sweep.todo = <<>>
       THEN /\ sweep' = SweepIdle
            /\ UNCHANGED <<http, dels>>
       ELSE /\ sweep' = [sweep EXCEPT !.todo = Tail(@)]
            /\ DeliverBegin(Head(sweep.todo), TRUE)
  /\ UNCHANGED <<subs, actions, users, events, reqs, scheduled, urlSet,
                 restarts, hits, hmac, resp>>

\* The outbox a restarted process finds: event rows in the statuses and
\* with the attempts deliverWebhook leaves them in, and no timer.
StoredShapes ==
  {<<"PENDING", 0>>, <<"RETRYING", 1>>, <<"RETRYING", 2>>, <<"FAILED", 3>>,
   <<"DELIVERED", 1>>}

StoredEvent(e, shape) ==
  [eventType |-> "submission.approved", sub |-> 1, status |-> shape[1],
   attempts |-> shape[2], lastAttempt |-> shape[2] > 0,
   lastError |-> shape[1] \in {"RETRYING", "FAILED"},
   delivered |-> shape[1] = "DELIVERED",
   payload |-> [eventType |-> "submission.approved", timestamp |-> e,
                data |-> 1]]

StoredPosts(shape) ==
  [posts |-> shape[2], oks |-> IF shape[1] = "DELIVERED" THEN 1 ELSE 0,
   skips |-> 0]

SweepInit ==
  /\ subs = <<>>
  /\ actions = <<>>
  /\ users = [w \in Wallets |-> NoUser]
  /\ \E a \in StoredShapes, b \in StoredShapes :
       /\ events = <<StoredEvent(1, a), StoredEvent(2, b)>>
       /\ http = <<StoredPosts(a), StoredPosts(b)>>
  /\ reqs = EmptyBag
  /\ scheduled = EmptyBag
  /\ dels = EmptyBag
  /\ sweep = SweepIdle
  /\ urlSet = TRUE
  /\ restarts = 1
  /\ resp = NoResponse
  /\ hits = NoHits
  /\ hmac = NoVerify

\* The process restarts: the store survives, the calls in progress and the
\* timers do not.
Restart ==
  /\ restarts < MaxRestarts
  /\ restarts' = restarts + 1
  /\ reqs' = EmptyBag
  /\ scheduled' = EmptyBag
  /\ dels' = EmptyBag
  /\ sweep' = SweepIdle
  /\ hits' = NoHits
  /\ UNCHANGED <<subs, actions, users, events, http, urlSet, resp, hmac>>

\* ------------------------------------------------------------------------
\* Specifications
\* ------------------------------------------------------------------------
\* The moderation engine.  The delivery of the events it emits changes
\* nothing a moderation or upload handler reads, and is left to WebhookSpec.
\* The requests of the user app are the signed ones within their quota;
\* the rate limiter and the signature checks are left to GatewaySpec and
\* IntegrationSpec.
Next ==
  \/ \E w \in Wallets, t \in Tasks : UploadRequest(w, t) /\ UNCHANGED hits
  \/ \E w \in Wallets, t \in Tasks : UploadConfirm(w, t) /\ UNCHANGED hits
  \/ \E s \in SubIds, tx \in TxLinks : ApproveRead(s, tx)
  \/ \E s \in SubIds, reason \in ReasonInputs : RejectRead(s, reason)
  \/ \E s \in SubIds : FlagRead(s)
  \/ \E r \in BagToSet(reqs) : ApproveTx(r)
  \/ \E r \in BagToSet(reqs) : RejectTx(r)
  \/ \E r \in BagToSet(reqs) : FlagTx(r)
  \/ \E r \in BagToSet(reqs) : TxFail(r)
  \/ \E r \in BagToSet(reqs) : EmitWebhook(r)
  \/ \E r \in BagToSet(reqs) : EmitFail(r)
  \/ \E s \in SubIds : ViewRead(s)
  \/ \E r \in BagToSet(reqs) : ViewLog(r)
  \/ \E w \in Claimers, s \in SubIds : ClaimRead(w, s)
  \/ \E r \in BagToSet(reqs) : ClaimWrite(r)
  \/ \E s \in SubIds, hash \in TxHashes : ConfirmRead(s, hash)
  \/ \E r \in BagToSet(reqs) : ConfirmWrite(r)

Spec == Init /\ [][Next]_vars

\* The admin's reject route with uploads and flags around it.
RejectNext ==
  \/ \E w \in Wallets, t \in Tasks : UploadRequest(w, t) /\ UNCHANGED hits
  \/ \E w \in Wallets, t \in Tasks : UploadConfirm(w, t) /\ UNCHANGED hits
  \/ \E s \in SubIds, reason \in RouteReasons : PostReject(s, reason)
  \/ \E r \in BagToSet(reqs) : RejectTx(r)
  \/ \E r \in BagToSet(reqs) : EmitWebhook(r)
  \/ \E s \in SubIds : FlagRead(s)
  \/ \E r \in BagToSet(reqs) : FlagTx(r)

RejectSpec == Init /\ [][RejectNext]_vars

\* The webhook service: events are emitted, delivered, retried and swept.
WebhookNext ==
  \/ \E type \in WebhookEventTypes : Emit(type, 1)
  \/ \E e \in 1..Len(events) : DeliverScheduled(e)
  \/ \E d \in BagToSet(dels), ok \in BOOLEAN : DeliverEnd(d, ok)
  \/ SweepStart
  \/ SweepStep
  \/ Restart

WebhookSpec == Init /\ [][WebhookNext]_vars

\* The retry job over an outbox of two stored events, with the timers its
\* failed attempts set.
SweepNext ==
  \/ SweepStart
  \/ SweepStep
  \/ \E d \in BagToSet(dels), ok \in BOOLEAN : DeliverEnd(d, ok)
  \/ \E e \in 1..Len(events) : DeliverScheduled(e)

SweepSpec == SweepInit /\ [][SweepNext]_vars

\* The event loop runs every scheduled call, every POST is answered (or
\* fails), and the retry job keeps being run; a restart may never happen.
WebhookFairness ==
  /\ WF_vars(\E e \in 1..Len(events) : DeliverScheduled(e))
  /\ WF_vars(\E d \in BagToSet(dels), ok \in BOOLEAN : DeliverEnd(d, ok))
  /\ WF_vars(SweepStart)
  /\ WF_vars(SweepStep)

FairWebhookSpec == WebhookSpec /\ WebhookFairness

\* Signing and verifying, for all payloads, secrets and received signatures.
HmacNext ==
  \/ \E payload \in Payloads, secret \in Secrets : HmacSign(payload, secret)
  \/ \E payload \in Payloads, signature \in Signatures :
       HmacReceive(payload, signature)
  \/ HmacVerify

HmacSpec == Init /\ [][HmacNext]_vars

\* The upload routes, with every signature and past the quota, on a store
\* whose users may be suspended.
GatewayNext ==
  \/ \E w \in WalletInputs, t \in Tasks, sig \in SignatureInputs :
       PostUploadRequest(w, t, sig)
  \/ \E w \in WalletInputs, t \in Tasks, sig \in SignatureInputs :
       PostUploadConfirm(w, t, sig)
  \/ \E key \in RateKeys : WindowReset(key)

GatewaySpec == GatewayInit /\ [][GatewayNext]_vars

\* The reward routes behind requireAppSignature, with every signature, and
\* the creation and approval of the submissions they act on.
IntegrationNext ==
  \/ \E w \in Wallets, t \in Tasks : UploadRequest(w, t) /\ UNCHANGED hits
  \/ \E w \in Wallets, t \in Tasks : UploadConfirm(w, t) /\ UNCHANGED hits
  \/ \E s \in SubIds, tx \in TxLinks : ApproveRead(s, tx)
  \/ \E r \in BagToSet(reqs) : ApproveTx(r)
  \/ \E r \in BagToSet(reqs) : EmitWebhook(r)
  \/ \E w \in Claimers, s \in SubIds, sig \in SignatureInputs :
       PostClaim(w, s, sig)
  \/ \E r \in BagToSet(reqs) : ClaimWrite(r)
  \/ \E w \in Claimers, s \in SubIds, hash \in TxHashes,
        sig \in SignatureInputs : PostConfirm(w, s, hash, sig)
  \/ \E r \in BagToSet(reqs) : ConfirmWrite(r)

IntegrationSpec == Init /\ [][IntegrationNext]_vars

\* Approvals and rejections together with the delivery of the events they
\* emit.
PipelineNext ==
  \/ \E w \in Wallets, t \in Tasks : UploadRequest(w, t) /\ UNCHANGED hits
  \/ \E w \in Wallets, t \in Tasks : UploadConfirm(w, t) /\ UNCHANGED hits
  \/ \E s \in SubIds, tx \in TxLinks : ApproveRead(s, tx)
  \/ \E s \in SubIds, reason \in ReasonInputs : RejectRead(s, reason)
  \/ \E r \in BagToSet(reqs) : ApproveTx(r)
  \/ \E r \in BagToSet(reqs) : RejectTx(r)
  \/ \E r \in BagToSet(reqs) : EmitWebhook(r)
  \/ \E e \in 1..Len(events) : DeliverScheduled(e)
  \/ \E d \in BagToSet(dels), ok \in BOOLEAN : DeliverEnd(d, ok)

PipelineSpec == Init /\ [][PipelineNext]_vars

\* ------------------------------------------------------------------------
\* Properties of the moderation engine (checked under Spec)
\* ------------------------------------------------------------------------
ModerationOps == {"approve", "reject", "flag"}

ClosedStatuses ==
  {"APPROVED", "REJECTED", "REWARD_PENDING", "REWARD_PAID", "EXPIRED"}

ClosedFor(op) ==
  IF op = "flag" THEN ClosedStatuses \cup {"FLAGGED"} ELSE ClosedStatuses

\* This step is a call of op on submission s that returned at its
\* validation.
ReturnedEarly(op, s) ==
  resp' # resp /\ resp'.op = op /\ resp'.id = s /\ reqs' = reqs

\* This step is a call of op on submission s that got past its validation.
WentOn(op, s) ==
  \E r \in BagToSet(reqs') :
    /\ r.op = op /\ r.sub = s /\ r.pc = "tx"
    /\ CopiesIn(r, reqs') > CopiesIn(r, reqs)

\* C1: approve, reject and flag on a submission whose stored status is
\* APPROVED, REJECTED, REWARD_PENDING, REWARD_PAID or EXPIRED (for flag also
\* FLAGGED) never get past the validation: the call answers BAD_REQUEST and
\* the submissions, the moderation actions, the users' counters and the
\* webhook events are as before.
C1_ClosedStatusIsRefused ==
  [][\A op \in ModerationOps, s \in SubIds :
       (Exists(s) /\ subs[s].status \in ClosedFor(op)) =>
         /\ ~WentOn(op, s)
         /\ ReturnedEarly(op, s) =>
              /\ resp' = Response(op, s, "BAD_REQUEST")
              /\ UNCHANGED store]_vars

C1_Witness ==
  \E op \in ModerationOps, s \in 1..Len(subs) :
    /\ subs[s].status \in ClosedFor(op)
    /\ resp = Response(op, s, "BAD_REQUEST")
    /\ actions # <<>>

PendingOf(w) ==
  {s \in 1..Len(subs) :
     subs[s].user = w /\ subs[s].status \in {"PENDING", "UNDER_REVIEW"}}

\* C2: for every user and task at most one submission is PENDING or
\* UNDER_REVIEW.
C2_OnePendingPerUserAndTask ==
  \A s1, s2 \in 1..Len(subs) :
    ( /\ subs[s1].user = subs[s2].user
      /\ subs[s1].task = subs[s2].task
      /\ subs[s1].status \in DuplicateStatuses
      /\ subs[s2].status \in DuplicateStatuses ) => s1 = s2

\* C3: each user's totalPending is the number of that user's submissions in
\* PENDING or UNDER_REVIEW.
C3_TotalPendingCountsPending ==
  \A w \in Wallets : users[w].totalPending = Cardinality(PendingOf(w))

AuditedActions == {"APPROVE", "REJECT", "FLAG"}

\* C4: a step that writes an APPROVE, REJECT or FLAG row writes one row,
\* whose previousStatus is the status the submission row held before the
\* step and whose newStatus is the status it holds after it.
C4_RowMatchesTransition ==
  [][(Len(actions') > Len(actions)
        /\ actions'[Len(actions')].action \in AuditedActions) =>
       LET row == actions'[Len(actions')]
       IN /\ actions' = Append(actions, row)
          /\ row.prev = subs[row.sub].status
          /\ row.new = subs'[row.sub].status]_vars

RowsOf(s, action) ==
  {i \in 1..Len(actions) : actions[i].sub = s /\ actions[i].action = action}

EventsOf(s, type) ==
  {e \in 1..Len(events) : events[e].sub = s /\ events[e].eventType = type}

\* This step is the return of the moderation call r from emitWebhook.
ReturnsFromEmit(r) ==
  r.pc = "emit" /\ CopiesIn(r, reqs') = CopiesIn(r, reqs) - 1

\* C5: an approve or reject call that returns OK has stored exactly one
\* event, of its own type and for its own submission; events are stored by
\* nothing else; and a submission never has more events of a type than
\* committed status changes of that type.
C5_OneEventPerModeration ==
  /\ [][\A r \in BagToSet(reqs) :
          (ReturnsFromEmit(r) /\ resp'.code = "OK") =>
            /\ resp' = Response(r.op, r.sub, "OK")
            /\ events' = Append(events,
                 NewEvent(IF r.op = "approve" THEN "submission.approved"
                          ELSE "submission.rejected", r.sub))]_vars
  /\ [][events' # events =>
          \E r \in BagToSet(reqs) : ReturnsFromEmit(r) /\ resp'.code = "OK"]_vars
  /\ [](\A s \in 1..Len(subs) :
          /\ Cardinality(EventsOf(s, "submission.approved"))
               <= Cardinality(RowsOf(s, "APPROVE"))
          /\ Cardinality(EventsOf(s, "submission.rejected"))
               <= Cardinality(RowsOf(s, "REJECT")))

C5_Witness ==
  \E s \in 1..Len(subs) :
    /\ Cardinality(EventsOf(s, "submission.approved")) = 1
    /\ Cardinality(EventsOf(s, "submission.rejected")) = 1
    /\ resp.code = "OK"
    /\ reqs = EmptyBag

RowsOfUser(w, action) ==
  {i \in 1..Len(actions) :
     actions[i].action = action /\ subs[actions[i].sub].user = w}

\* C10: the three writes of a moderation transaction are never seen apart.
\* A user's totalApproved and totalRejected are the numbers of APPROVE and
\* REJECT rows of that user's submissions, totalPending has gone down once
\* per such row, a submission with an APPROVE, REJECT or FLAG row has left
\* PENDING with its review fields written, and a submission without such a
\* row is PENDING and unreviewed.
C10_TransactionIsAllOrNothing ==
  /\ \A w \in Wallets :
       /\ users[w].totalApproved = Cardinality(RowsOfUser(w, "APPROVE"))
       /\ users[w].totalRejected = Cardinality(RowsOfUser(w, "REJECT"))
       /\ users[w].totalPending =
            Cardinality({s \in 1..Len(subs) : subs[s].user = w})
              - Cardinality(RowsOfUser(w, "APPROVE"))
              - Cardinality(RowsOfUser(w, "REJECT"))
  /\ \A s \in 1..Len(subs) :
       /\ (\E a \in AuditedActions : RowsOf(s, a) # {})
            <=> subs[s].status # "PENDING"
       /\ (RowsOf(s, "APPROVE") \cup RowsOf(s, "REJECT") # {})
            <=> subs[s].reviewedBy # "none"
       /\ RowsOf(s, "REJECT") # {} <=> subs[s].rejectionReason # <<>>

\* A moderation transaction has just failed on a submission that is still
\* PENDING, with no row written.
C10_Witness ==
  /\ resp.code = "INTERNAL_ERROR"
  /\ resp.op \in ModerationOps
  /\ subs[resp.id].status = "PENDING"
  /\ actions = <<>>

\* ------------------------------------------------------------------------
\* Properties of the webhook service (checked under WebhookSpec, the
\* liveness under FairWebhookSpec)
\* ------------------------------------------------------------------------
FailureLadder ==
  {<<"PENDING", 0>>, <<"RETRYING", 1>>, <<"RETRYING", 2>>, <<"FAILED", 3>>}

\* No POST is started for an event that is FAILED.
NoPostOnceFailed ==
  [][\A e \in 1..Len(events) :
       events[e].status = "FAILED" => http'[e].posts = http[e].posts]_vars

\* C6: an event none of whose attempts has succeeded is at PENDING/0,
\* RETRYING/1, RETRYING/2 or FAILED/3, no more than three POSTs have been
\* issued for it, and once it is FAILED no POST is started for it.
C6_ThreeFailuresThenNoAttempt ==
  /\ [](\A e \in 1..Len(events) :
          http[e].oks = 0 =>
            /\ <<events[e].status, events[e].attempts>> \in FailureLadder
            /\ http[e].posts <= MAX_RETRIES)
  /\ NoPostOnceFailed

\* C7: no event receives more than one 2xx delivery.
C7_AtMostOneSuccessfulDelivery ==
  \A e \in 1..Len(events) : http[e].oks <= 1

\* This step runs a scheduled deliverWebhook call on event e.
RunsScheduled(e) ==
  restarts' = restarts /\ CopiesIn(e, scheduled') < CopiesIn(e, scheduled)

\* This step is the retry sweep calling deliverWebhook on event e.
RunsFromSweep(e) ==
  /\ sweep.active /\ sweep.todo # <<>> /\ Head(sweep.todo) = e
  /\ sweep'.active /\ sweep'.todo = Tail(sweep.todo)

\* C8: deliverWebhook called on an event that is DELIVERED issues no POST
\* and leaves the event rows as they are.  (Events are never deleted, so no
\* caller passes the id of a missing event.)
C8_DeliverOnDeliveredIsNoOp ==
  [][\A e \in 1..Len(events) :
       (events[e].status = "DELIVERED"
          /\ (RunsScheduled(e) \/ RunsFromSweep(e))) =>
         /\ events' = events
         /\ dels' = dels
         /\ http'[e].posts = http[e].posts]_vars

C8_Witness ==
  \E e \in 1..Len(events) :
    events[e].status = "DELIVERED" /\ http[e].skips >= 1

\* C9: with a target URL configured, every stored event eventually is
\* DELIVERED or FAILED.
C9_EveryEventSettles ==
  \A e \in 1..MaxEvents :
    (e <= Len(events) /\ urlSet)
      ~> (e <= Len(events) /\ events[e].status \in {"DELIVERED", "FAILED"})

\* ------------------------------------------------------------------------
\* Properties of the signature functions (checked under HmacSpec)
\* ------------------------------------------------------------------------
\* C12: verifyHmacSignature answers true for the signed payload with its
\* own signature, and answers false (it does not throw) when the payload or
\* the signature it is given differs from the signed one.
C12_VerifyIsTrueOrFalse ==
  hmac.stage = "verified" =>
    IF hmac.gotPayload = hmac.payload /\ hmac.gotSignature = hmac.signature
      THEN hmac.result = "true"
      ELSE hmac.result = "false"

\* ------------------------------------------------------------------------
\* Properties of the routes of the user app (checked under GatewaySpec)
\* ------------------------------------------------------------------------
\* C11: a request that is turned away at the signature check (its signature
\* is missing or is not the HMAC of its raw body) is answered UNAUTHORIZED
\* and leaves submissions, moderation actions, users and webhook events as
\* they are.
C11_BadSignatureIsUnauthorized ==
  [][resp'.refused # {} =>
       /\ resp'.code = "UNAUTHORIZED"
       /\ UNCHANGED store]_vars

\* ------------------------------------------------------------------------
\* Further properties of the webhook service (checked under WebhookSpec)
\* ------------------------------------------------------------------------
\* C13: the payload of an event row never changes, and every POST in flight
\* carries the stored payload as its body and signs that same string.
C13_AttemptsCarryStoredPayload ==
  /\ [][\A e \in 1..Len(events) :
          events'[e].payload = events[e].payload]_vars
  /\ [](\A d \in BagToSet(dels) :
          /\ d.body = events[d.ev].payload
          /\ d.signed = events[d.ev].payload)

\* A retry of an event is in flight.
C13_Witness ==
  \E d \in BagToSet(dels) : d.att >= 1 /\ http[d.ev].posts >= 2

\* This step stores a new event.
StoresEvent == Len(events') > Len(events)

\* C14: a step of emitWebhook adds exactly one event row, PENDING with no
\* attempts, and returns its id with no POST issued; it starts a delivery
\* exactly when a target URL is configured; no later step of the delivery
\* changes what was returned; and without a target URL nothing is ever
\* scheduled or posted.
C14_EmitStoresOneAndReturns ==
  /\ [][StoresEvent =>
          /\ Len(events') = Len(events) + 1
          /\ SubSeq(events', 1, Len(events)) = events
          /\ events'[Len(events')].status = "PENDING"
          /\ events'[Len(events')].attempts = 0
          /\ resp' = Response("emit", Len(events'), "OK")
          /\ dels' = dels
          /\ http'[Len(events')].posts = 0
          /\ IF urlSet
               THEN scheduled' = scheduled (+) One(Len(events'))
               ELSE scheduled' = scheduled]_vars
  /\ [][~StoresEvent => resp' = resp]_vars
  /\ [](~urlSet =>
          /\ scheduled = EmptyBag
          /\ dels = EmptyBag
          /\ \A e \in 1..Len(events) : http[e].posts = 0)

\* emitWebhook has returned the id of an event whose delivery has since
\* failed for good.
C14_Witness ==
  /\ resp = Response("emit", 1, "OK")
  /\ Len(events) >= 1
  /\ events[1].status = "FAILED"

\* ------------------------------------------------------------------------
\* Properties of moderation with delivery (checked under PipelineSpec)
\* ------------------------------------------------------------------------
\* This step is the failure of the POST d: its event row counts one more
\* attempt and is RETRYING or FAILED.
FailsDelivery(d) ==
  /\ CopiesIn(d, dels') = CopiesIn(d, dels) - 1
  /\ events'[d.ev].attempts = events[d.ev].attempts + 1
  /\ events'[d.ev].status \in {"RETRYING", "FAILED"}

\* C15: the failure of a delivery changes the row of its event and nothing
\* else: no response, no moderation call in progress, no submission, action
\* or user; and an approve or reject call that comes back from emitWebhook
\* answers OK whatever has become of the deliveries.
C15_DeliveryFailureStaysInOutbox ==
  /\ [][\A d \in BagToSet(dels) :
          FailsDelivery(d) =>
            /\ UNCHANGED <<resp, reqs, subs, actions, users>>
            /\ \A e \in 1..Len(events) :
                 e # d.ev => events'[e] = events[e]]_vars
  /\ [][\A r \in BagToSet(reqs) :
          ReturnsFromEmit(r) => resp' = Response(r.op, r.sub, "OK")]_vars

\* An approve or reject call has answered OK and the event of its submission
\* has failed for good.
C15_Witness ==
  /\ resp.op \in {"approve", "reject"}
  /\ resp.code = "OK"
  /\ \E e \in 1..Len(events) :
       events[e].sub = resp.id /\ events[e].status = "FAILED"

\* ------------------------------------------------------------------------
\* Further properties of the moderation engine (checked under Spec)
\* ------------------------------------------------------------------------
\* This step inserts a VIEW row.
LogsView ==
  /\ Len(actions') > Len(actions)
  /\ actions'[Len(actions')].action = "VIEW"

\* C16: a view reads the submission without changing anything, and then
\* adds exactly one VIEW row whose previousStatus and newStatus are both
\* the status it read, changing no submission, no user counter and no
\* webhook event; a view that returns has added its row.
C16_ViewOnlyLogs ==
  /\ [][\A s \in SubIds :
          WentOn("view", s) =>
            /\ UNCHANGED store
            /\ \E r \in BagToSet(reqs') :
                 /\ r.op = "view" /\ r.sub = s
                 /\ CopiesIn(r, reqs') > CopiesIn(r, reqs)
                 /\ r.prev = subs[s].status]_vars
  /\ [][LogsView =>
          LET row == actions'[Len(actions')]
          IN /\ actions' = Append(actions, row)
             /\ row.prev = row.new
             /\ \E r \in BagToSet(reqs) :
                  /\ r.op = "view" /\ r.sub = row.sub /\ r.prev = row.prev
                  /\ CopiesIn(r, reqs') = CopiesIn(r, reqs) - 1
             /\ UNCHANGED <<subs, users, events, http, scheduled>>]_vars
  /\ [][(resp' # resp /\ resp'.op = "view" /\ resp'.code = "OK")
          => LogsView]_vars

\* A view of a submission that is no longer PENDING has returned.
C16_Witness ==
  /\ resp.op = "view" /\ resp.code = "OK"
  /\ actions # <<>>
  /\ actions[Len(actions)].action = "VIEW"
  /\ actions[Len(actions)].prev # "PENDING"
  /\ subs[resp.id].status = actions[Len(actions)].prev

\* This step is the update of a call of op on submission s, and the store
\* carried it out.
Updated(op, s) ==
  /\ \E r \in BagToSet(reqs) :
       /\ r.op = op /\ r.sub = s /\ r.pc = "tx"
       /\ CopiesIn(r, reqs') < CopiesIn(r, reqs)
  /\ resp'.code # "INTERNAL_ERROR"

\* A claim by wallet w of submission s that the route has to refuse.
NotClaimable(w, s) ==
  ~Exists(s) \/ subs[s].user # w \/ subs[s].status # "APPROVED"

\* C17: an approval leaves the submission APPROVED; a claim gets past its
\* validation exactly when it is made by the owning wallet on a submission
\* it reads as APPROVED, and its update sets REWARD_PENDING and nothing
\* else; a confirmation gets past its validation only on a submission it
\* reads as REWARD_PENDING, and its update sets REWARD_PAID, rewardTxHash to
\* the hash of the call and rewardPaidAt. A claim by another wallet or on
\* any other status answers NOT_FOUND or BAD_REQUEST and changes no
\* submission, moderation action, counter or webhook event.
C17_ApproveClaimConfirm ==
  /\ [][\A s \in SubIds :
          /\ Updated("approve", s) => subs'[s].status = "APPROVED"
          /\ Updated("claim", s) =>
               /\ subs' = [subs EXCEPT ![s].status = "REWARD_PENDING"]
               /\ resp' = Response("claim", s, "OK")
               /\ UNCHANGED <<actions, users, events>>
          /\ WentOn("confirm", s) =>
               /\ subs[s].status = "REWARD_PENDING"
               /\ UNCHANGED store
          /\ Updated("confirm", s) =>
               /\ \E r \in BagToSet(reqs) :
                    /\ r.op = "confirm" /\ r.sub = s /\ r.pc = "tx"
                    /\ CopiesIn(r, reqs') < CopiesIn(r, reqs)
                    /\ subs' = [subs EXCEPT ![s].status = "REWARD_PAID",
                                            ![s].rewardTxHash = r.tx,
                                            ![s].rewardPaidAt = TRUE]
               /\ resp' = Response("confirm", s, "OK")
               /\ UNCHANGED <<actions, users, events>>]_vars
  /\ [][\A w \in Claimers, s \in SubIds :
          ClaimRead(w, s) =>
            /\ UNCHANGED store
            /\ IF NotClaimable(w, s)
                 THEN /\ reqs' = reqs
                      /\ resp'.op = "claim" /\ resp'.id = s
                      /\ resp'.code \in {"NOT_FOUND", "BAD_REQUEST"}
                 ELSE WentOn("claim", s)]_vars

\* A submission was approved, claimed and confirmed, and holds the hash.
C17_Witness ==
  \E s \in SubIds :
    /\ Exists(s)
    /\ resp = Response("confirm", s, "OK")
    /\ subs[s].status = "REWARD_PAID"
    /\ subs[s].rewardTxHash \in TxHashes
    /\ subs[s].rewardPaidAt
    /\ \E i \in 1..Len(actions) :
         actions[i].sub = s /\ actions[i].action = "APPROVE"

\* ------------------------------------------------------------------------
\* Properties of the reject route (checked under RejectSpec)
\* ------------------------------------------------------------------------
\* A reason the route or the service has to refuse.
Unusable(reason) ==
  Len(reason) < REASON_MIN \/ \A i \in 1..Len(reason) : reason[i] = " "

\* C18: a reject call whose reason is empty, only blanks or shorter than
\* REASON_MIN is answered with a 400 response before the transaction: the
\* call does not go on, and submissions, moderation actions, counters and
\* webhook events are as before.
C18_BadReasonIsRefused ==
  [][\A s \in SubIds, reason \in RouteReasons :
       (PostReject(s, reason) /\ Unusable(reason)) =>
         /\ resp'.op = "reject" /\ resp'.id = s
         /\ StatusCode(resp'.code) = 400
         /\ reqs' = reqs
         /\ UNCHANGED store]_vars

\* A reject with an unusable reason was refused on a submission that a
\* usable reason would have rejected.
C18_Witness ==
  /\ resp.op = "reject"
  /\ resp.code \in {"VALIDATION_ERROR", "BAD_REQUEST"}
  /\ Exists(resp.id)
  /\ subs[resp.id].status \in RejectableStatuses

\* ------------------------------------------------------------------------
\* Properties of the upload routes (checked under GatewaySpec)
\* ------------------------------------------------------------------------
SubmissionsOf(w) == {s \in 1..Len(subs) : subs[s].user = w}

\* C19: an upload request or upload confirmation that reaches its handler
\* for a user whose isSuspended flag is set is answered FORBIDDEN and
\* leaves submissions, moderation actions, counters and webhook events as
\* they were; so a suspended user never gets a submission or a count.
C19_SuspendedIsForbidden ==
  /\ [][\A w \in Wallets, t \in Tasks :
          (users[w].isSuspended
             /\ (UploadRequest(w, t) \/ UploadConfirm(w, t))) =>
            /\ resp'.code = "FORBIDDEN"
            /\ UNCHANGED store]_vars
  /\ [](\A w \in Wallets :
          users[w].isSuspended =>
            /\ SubmissionsOf(w) = {}
            /\ users[w].totalPending = 0)

\* A suspended user's upload confirmation got past the limiter and the
\* signature check and was refused.
C19_Witness ==
  /\ resp = Response("uploadConfirm", 0, "FORBIDDEN")
  /\ \E w \in Wallets : users[w].isSuspended /\ hits[w].passed > 0

\* This step is a request of the key arriving at the limiter.
Arrives(key) == hits'[key].total = hits[key].total + 1

\* C20: of the requests one key makes to /upload/request and
\* /upload/confirm within one window, the first RATE_MAX get past the
\* limiter and no more; every further one is answered TOO_MANY_REQUESTS in
\* the step it arrives in, no call is left waiting, and submissions,
\* moderation actions, counters and webhook events are as before.
C20_QuotaPerKeyAndWindow ==
  /\ [][\A key \in RateKeys :
          Arrives(key) =>
            IF hits[key].total >= RATE_MAX
              THEN /\ resp'.code = "TOO_MANY_REQUESTS"
                   /\ reqs' = reqs
                   /\ hits'[key].passed = hits[key].passed
                   /\ UNCHANGED store
              ELSE /\ resp'.code # "TOO_MANY_REQUESTS"
                   /\ hits'[key].passed = hits[key].passed + 1]_vars
  /\ [](\A key \in RateKeys : hits[key].passed <= RATE_MAX)

\* A key has used its quota on requests that created a submission, and its
\* next request in the window was turned away.
C20_Witness ==
  \E w \in Wallets :
    /\ hits[w].total = RATE_MAX + 1
    /\ hits[w].passed = RATE_MAX
    /\ resp.code = "TOO_MANY_REQUESTS"
    /\ SubmissionsOf(w) # {}

\* ------------------------------------------------------------------------
\* Properties of the reward routes and of concurrent writes (checked under
\* Spec)
\* ------------------------------------------------------------------------
\* C21: a reward confirmation of a submission whose status is not
\* REWARD_PENDING is answered CONFLICT, and the submission's status,
\* rewardTxHash and rewardPaidAt (and the rest of the store) are as before.
C21_ConfirmWrongStatusIsConflict ==
  [][\A s \in SubIds, hash \in TxHashes :
       (/\ ConfirmRead(s, hash)
        /\ Exists(s)
        /\ subs[s].status # "REWARD_PENDING") =>
         /\ resp'.code = "CONFLICT"
         /\ reqs' = reqs
         /\ UNCHANGED store]_vars

\* The status changes the validations of approve, reject, flag, claim and
\* confirm allow, as pairs of the status before and the status after.
AllowedEdges ==
  (ApprovableStatuses \X {"APPROVED"})
    \cup (RejectableStatuses \X {"REJECTED"})
    \cup (FlaggableStatuses \X {"FLAGGED"})
    \cup (ClaimableStatuses \X {"REWARD_PENDING"})
    \cup (ConfirmableStatuses \X {"REWARD_PAID"})

\* C22: whenever the stored status of a submission changes, the status the
\* row held just before the write and the status written form an allowed
\* edge; so a submission that is REJECTED, EXPIRED or REWARD_PAID keeps its
\* status, however approve, reject, flag, claim and confirm calls on it
\* interleave.
C22_WritesFollowTheTable ==
  [][\A s \in SubIds :
       (Exists(s) /\ subs'[s].status # subs[s].status) =>
         /\ <<subs[s].status, subs'[s].status>> \in AllowedEdges
         /\ subs[s].status \notin {"REJECTED", "EXPIRED", "REWARD_PAID"}]_vars

\* C23: whenever the stored status of a submission changes (by approve,
\* reject, flag, claim or confirm), the same step inserts exactly one
\* ModerationAction row for that submission whose newStatus is the status
\* written.
C23_EveryStatusChangeIsLogged ==
  [][\A s \in SubIds :
       (Exists(s) /\ subs'[s].status # subs[s].status) =>
         /\ Len(actions') = Len(actions) + 1
         /\ actions'[Len(actions')].sub = s
         /\ actions'[Len(actions')].new = subs'[s].status]_vars

ApprovedStatuses == {"APPROVED", "REWARD_PENDING", "REWARD_PAID"}

WithStatus(w, statuses) ==
  {s \in 1..Len(subs) : subs[s].user = w /\ subs[s].status \in statuses}

\* C24: in every state, each user's totalApproved is the number of the
\* user's submissions whose status is APPROVED, REWARD_PENDING or
\* REWARD_PAID, totalRejected is the number whose status is REJECTED, and
\* totalPending is not negative, also when approve and reject calls on one
\* submission interleave.
C24_CountersMatchStatuses ==
  \A w \in Wallets :
    /\ users[w].totalApproved = Cardinality(WithStatus(w, ApprovedStatuses))
    /\ users[w].totalRejected = Cardinality(WithStatus(w, {"REJECTED"}))
    /\ users[w].totalPending >= 0

\* ------------------------------------------------------------------------
\* Properties of the retry job (checked under SweepSpec)
\* ------------------------------------------------------------------------
\* The events the retry job is meant to take.
Selectable ==
  {e \in 1..Len(events) :
     events[e].status = "RETRYING" /\ events[e].attempts < 3}

\* The deliveries the sweep is waiting for.
SweepDeliveries(bag) == {d \in BagToSet(bag) : d.sw}

C26_SettledEventsStaySettled ==
  [][\A e \in 1..Len(events) :
       events[e].status \in {"DELIVERED", "FAILED"} =>
         events'[e].status = events[e].status]_vars

\* C27: in every state, an event that is PENDING has 0 attempts, one that
\* is RETRYING has 1 or 2, one that is FAILED has exactly MAX_RETRIES and
\* one that is DELIVERED has between 1 and MAX_RETRIES.
C27_StatusAgreesWithAttempts ==
  \A e \in 1..Len(events) :
    /\ events[e].status = "PENDING" => events[e].attempts = 0
    /\ events[e].status = "RETRYING" =>
         events[e].attempts \in 1..(MAX_RETRIES - 1)
    /\ events[e].status = "FAILED" => events[e].attempts = MAX_RETRIES
    /\ events[e].status = "DELIVERED" =>
         events[e].attempts \in 1..MAX_RETRIES

\* ------------------------------------------------------------------------
\* Errors of approve and reject (checked under Spec)
\* ------------------------------------------------------------------------
ErrorCodes ==
  {"BAD_REQUEST", "VALIDATION_ERROR", "NOT_FOUND", "INTERNAL_ERROR"}

\* The calls of op that end in this step.
Ending(op) ==
  {r \in BagToSet(reqs) : r.op = op /\ CopiesIn(r, reqs') < CopiesIn(r, reqs)}

\* C28: a step in which approveSubmission or rejectSubmission answers its
\* caller with an error changes no submission, no moderation action and no
\* counter, and the call that ends has not committed its transaction before
\* (it is still ahead of it); this includes the error of a failed insert of
\* the webhook event.
C28_ErrorLeavesStoreAsBefore ==
  [][\A op \in {"approve", "reject"} :
       (resp'.op = op /\ resp'.code \in ErrorCodes
          /\ (resp' # resp \/ Ending(op) # {})) =>
         /\ UNCHANGED <<subs, actions, users>>
         /\ \A r \in Ending(op) : r.pc = "tx"]_vars

\* ------------------------------------------------------------------------
\* Unsigned requests and the quota (checked under GatewaySpec)
\* ------------------------------------------------------------------------
\* The signature the user app puts on a request of wallet w.
ValidSignature(w) == CreateHmacSignature(RawBody(w), WebhookSecret)

\* What the limiter and the signature check answer to a validly signed
\* request of wallet w arriving now.
SignedOutcome(op, w) == UploadGate(op, w, ValidSignature(w)).code

\* C29: a request turned away for a missing or invalid signature leaves the
\* store as it was, and a validly signed request of any wallet is answered
\* after it as it would have been answered before it; so the run with the
\* unsigned request and the run without it treat the signed requests alike,
\* and the unsigned request uses up none of the wallet's quota.
C29_UnsignedRequestsHaveNoInfluence ==
  [][resp'.refused # {} =>
       /\ UNCHANGED store
       /\ \A w \in Wallets, op \in {"uploadRequest", "uploadConfirm"} :
            SignedOutcome(op, w)' = SignedOutcome(op, w)]_vars

\* ------------------------------------------------------------------------
\* The statuses a submission takes (checked under Spec)
\* ------------------------------------------------------------------------
WrittenStatuses ==
  {"PENDING", "FLAGGED", "APPROVED", "REJECTED", "REWARD_PENDING",
   "REWARD_PAID"}

\* C30: in every state the status of every submission is one of the eight
\* values of SubmissionStatus, and it is never UNDER_REVIEW or EXPIRED: it
\* is PENDING, FLAGGED, APPROVED, REJECTED, REWARD_PENDING or REWARD_PAID.
C30_StatusIsOneOfTheWritten ==
  \A s \in 1..Len(subs) :
    /\ subs[s].status \in SubmissionStatus
    /\ subs[s].status \notin {"UNDER_REVIEW", "EXPIRED"}
    /\ subs[s].status \in WrittenStatuses

\* One submission went all the way to REWARD_PAID and another was flagged.
C30_Witness ==
  \E s1, s2 \in 1..Len(subs) :
    /\ subs[s1].status = "REWARD_PAID"
    /\ subs[s2].status = "FLAGGED"

====
